---- MODULE Spec2Model ----
(***************************************************************************)
(* The spectral field kernels of FB-PIC (fbpic/fields/cuda_methods.py).    *)
(*                                                                         *)
(* Every kernel is a per-thread program: a bounds guard on the thread      *)
(* index (iz, ir) followed by a straight line of assignments that read and *)
(* write the arrays at [iz, ir].  The model keeps that shape: a kernel is  *)
(* a sequence of labelled statements, a statement is the value it computes *)
(* and the place it stores it, and a call of the kernel runs the program   *)
(* of every thread of the launched grid.                                   *)
(*                                                                         *)
(* Numbers.  The arrays hold complex128 / float64 values.  The model       *)
(* computes in exact complex rational arithmetic, so that floating-point   *)
(* rounding is outside the model.                                          *)
(***************************************************************************)
EXTENDS Integers, Sequences, FiniteSets, TLC

(***************************************************************************)
(* Bounds of the model.                                                    *)
(***************************************************************************)
MaxNz == 2

MaxNr == 2

MaxSeed == 2

MaxCalls == 2

MaxTimesteps == 2

(***************************************************************************)
(* Exact complex rational arithmetic.  A number (re + i*im)/den is the     *)
(* triple <<re, im, den>> of integers in lowest terms, with den > 0, so    *)
(* that equal numbers are equal triples.                                   *)
(***************************************************************************)
Abs(x) == IF x < 0 THEN -x ELSE x

RECURSIVE GCD(_, _)
GCD(a, b) == IF b = 0 THEN a ELSE GCD(b, a % b)

Div3(a, b, d, g) == <<a \div g, b \div g, d \div g>>

\* (a + i*b)/d in lowest terms, for d > 0
Norm(a, b, d) ==
    IF d = 1 THEN <<a, b, 1>> ELSE Div3(a, b, d, GCD(GCD(Abs(a), Abs(b)), d))

Cx(a, b) == <<a, b, 1>>

\* the real number n/d, for d > 0
Rat(n, d) == Norm(n, 0, d)

Zero == Cx(0, 0)

One == Cx(1, 0)

Half == Rat(1, 2)

J1 == Cx(0, 1)

\* x + y over the least common denominator; g is the gcd of the denominators
AddOver(x, y, g) ==
    Norm(x[1] * (y[3] \div g) + y[1] * (x[3] \div g),
         x[2] * (y[3] \div g) + y[2] * (x[3] \div g),
         (x[3] \div g) * y[3])

CAdd(x, y) ==
    IF x[3] = 1 /\ y[3] = 1 THEN <<x[1] + y[1], x[2] + y[2], 1>>
    ELSE AddOver(x, y, GCD(x[3], y[3]))

CNeg(x) == <<-x[1], -x[2], x[3]>>

CSub(x, y) == CAdd(x, CNeg(y))

CMul(x, y) ==
    Norm(x[1] * y[1] - x[2] * y[2], x[1] * y[2] + x[2] * y[1], x[3] * y[3])

\* 1/x for a real x > 0
RInv(x) == Norm(x[3], 0, x[1])

Mul3(x, y, z) == CMul(CMul(x, y), z)

Mul4(x, y, z, w) == CMul(Mul3(x, y, z), w)

Sum3(x, y, z) == CAdd(CAdd(x, y), z)

Sum4(x, y, z, w) == CAdd(Sum3(x, y, z), w)

(***************************************************************************)
(* Physical constants (scipy.constants c, epsilon_0, mu_0).  The model     *)
(* uses small rational stand-ins that keep epsilon_0 * mu_0 * c^2 = 1.     *)
(***************************************************************************)
c == Rat(2, 1)

epsilon_0 == Rat(2, 1)

mu_0 == Rat(1, 8)

c2 == CMul(c, c)

(***************************************************************************)
(* Arrays.  A 2d array is a function on the cells <<iz, ir>> of its shape, *)
(* a 1d array (invvol) a function on the radial indices.  The memory is a  *)
(* record of 2d arrays: the spectral grid of one azimuthal mode and the    *)
(* interpolation grid of modes 0 and 1.                                    *)
(***************************************************************************)
Cells(nz, nr) == (0 .. nz - 1) \X (0 .. nr - 1)

SpectNames ==
    {"Ep", "Em", "Ez", "Bp", "Bm", "Bz", "Jp", "Jm", "Jz", "rho_prev", "rho_next"}

InterpScalarNames == {"mode0", "mode1"}

InterpVectorNames == {"mode0r", "mode1r", "mode0t", "mode1t", "mode0z", "mode1z"}

ArrayNames == SpectNames \cup InterpScalarNames \cup InterpVectorNames

\* mode0.shape[0] and mode0.shape[1]
Shape0(arr) == Cardinality({x[1] : x \in DOMAIN arr})

Shape1(arr) == Cardinality({x[2] : x \in DOMAIN arr})

\* iz, ir = cuda.grid(2): the thread's cell
iz(t) == t[1]

ir(t) == t[2]

(***************************************************************************)
(* Statements.  Running a statement of thread t evaluates its right-hand   *)
(* side on the memory m, the thread's locals l and the call's arguments a, *)
(* and yields the value together with the place it is stored in: a local   *)
(* of the thread, or the element `at` of the array `tgt`.                  *)
(***************************************************************************)
Local(name, v) == [kind |-> "local", tgt |-> name, at |-> <<0, 0>>, val |-> v]

Store(name, cell, v) == [kind |-> "array", tgt |-> name, at |-> cell, val |-> v]

NoLocals ==
    [Ep_old |-> Zero, Em_old |-> Zero, Ez_old |-> Zero, divE |-> Zero,
     divJ |-> Zero, rho_diff |-> Zero, F |-> Zero]

(***************************************************************************)
(* Erasing functions.                                                      *)
(***************************************************************************)
Guard_erase_scalar(m, a, t) ==
    iz(t) < Shape0(m.mode0) /\ ir(t) < Shape1(m.mode0)

Prog_erase_scalar_bad == <<"mode1">>

Prog_erase_scalar == <<"mode0", "mode1">>

cuda_erase_scalar(m, l, a, t, lab) == Store(lab, t, Zero)

Guard_erase_vector(m, a, t) ==
    iz(t) < Shape0(m.mode0r) /\ ir(t) < Shape1(m.mode0r)

Prog_erase_vector_bad == <<"mode0r", "mode0t", "mode0z", "mode1r", "mode1t">>

Prog_erase_vector == <<"mode0r", "mode0t", "mode0z", "mode1r", "mode1t", "mode1z">>

cuda_erase_vector(m, l, a, t, lab) == Store(lab, t, Zero)

(***************************************************************************)
(* Divide by volume functions.                                             *)
(***************************************************************************)
Guard_divide_scalar_by_volume(m, a, t) ==
    iz(t) < Shape0(m.mode0) /\ ir(t) < Shape1(m.mode0)

Prog_divide_scalar_by_volume == <<"mode0", "mode1">>

cuda_divide_scalar_by_volume(m, l, a, t, lab) ==
    CASE lab = "mode0" -> Store("mode0", t, CMul(m.mode0[t], a.invvol0[ir(t)]))
      [] lab = "mode1" -> Store("mode1", t, CMul(m.mode1[t], a.invvol1[ir(t)]))

Guard_divide_vector_by_volume(m, a, t) ==
    iz(t) < Shape0(m.mode0r) /\ ir(t) < Shape1(m.mode0r)

Prog_divide_vector_by_volume ==
    <<"mode0r", "mode0t", "mode0z", "mode1r", "mode1t", "mode1z">>

\* the inverse volume a component of the vector field is multiplied by
InvvolOf_bad(a, lab) == a.invvol0

InvvolOf(a, lab) ==
    IF lab \in {"mode0r", "mode0t", "mode0z"} THEN a.invvol0 ELSE a.invvol1

cuda_divide_vector_by_volume(m, l, a, t, lab) ==
    Store(lab, t, CMul(m[lab][t], InvvolOf(a, lab)[ir(t)]))

(***************************************************************************)
(* cuda_correct_currents                                                   *)
(***************************************************************************)
Guard_correct_currents(m, a, t) == iz(t) < a.Nz /\ ir(t) < a.Nr

Prog_correct_currents == <<"F", "Jp", "Jm", "Jz">>

\* F = - inv_k2 * ( j_corr_coef*(rho_next - rho_prev*T) + 1.j*kz*Jz + kr*(Jp - Jm) )
Correct_F_bad(m, a, t) ==
    CNeg(CMul(a.inv_k2[t],
         Sum3(CMul(a.j_corr_coef[t],
                   CSub(m.rho_next[t], CMul(m.rho_prev[t], a.T[t]))),
              Mul3(J1, a.kz[t], m.Jz[t]),
              CMul(a.kr[t], CAdd(m.Jp[t], m.Jm[t])))))

Correct_F(m, a, t) ==
    CNeg(CMul(a.inv_k2[t],
         Sum3(CMul(a.j_corr_coef[t],
                   CSub(m.rho_next[t], CMul(m.rho_prev[t], a.T[t]))),
              Mul3(J1, a.kz[t], m.Jz[t]),
              CMul(a.kr[t], CSub(m.Jp[t], m.Jm[t])))))

cuda_correct_currents(m, l, a, t, lab) ==
    CASE lab = "F" -> Local("F", Correct_F(m, a, t))
      [] lab = "Jp" -> Store("Jp", t, CAdd(m.Jp[t], Mul3(Half, a.kr[t], l.F)))
      [] lab = "Jm" -> Store("Jm", t, CAdd(m.Jm[t], Mul3(CNeg(Half), a.kr[t], l.F)))
      [] lab = "Jz" -> Store("Jz", t, CAdd(m.Jz[t], Mul3(CNeg(J1), a.kz[t], l.F)))

(***************************************************************************)
(* cuda_push_eb_with                                                       *)
(***************************************************************************)
Guard_push_eb_with(m, a, t) == iz(t) < a.Nz /\ ir(t) < a.Nr

Prog_push_eb_with(a) ==
    <<"Ep_old", "Em_old", "Ez_old">>
    \o (IF a.ptcl_feedback
        THEN IF a.use_true_rho THEN <<"rho_diff">> ELSE <<"divE", "divJ", "rho_diff">>
        ELSE << >>)
    \o <<"Ep", "Em", "Ez", "Bp", "Bm", "Bz">>

\* rho_diff = rho_next_coef * rho_next - rho_prev_coef * rho_prev
TrueRho_rho_diff(m, a, t) ==
    CSub(CMul(a.rho_next_coef[t], m.rho_next[t]),
         CMul(a.rho_prev_coef[t], m.rho_prev[t]))

\* divE = kr*( Ep - Em ) + 1.j*kz*Ez
Div_E(m, a, t) ==
    CAdd(CMul(a.kr[t], CSub(m.Ep[t], m.Em[t])), Mul3(J1, a.kz[t], m.Ez[t]))

\* divJ = kr*( Jp - Jm ) + 1.j*kz*Jz
Div_J_bad(m, a, t) == CMul(a.kr[t], CSub(m.Jp[t], m.Jm[t]))

Div_J(m, a, t) ==
    CAdd(CMul(a.kr[t], CSub(m.Jp[t], m.Jm[t])), Mul3(J1, a.kz[t], m.Jz[t]))

\* rho_diff = (T*rho_next_coef - rho_prev_coef)*epsilon_0*divE
\*            + T_rho*rho_next_coef*dt*divJ
Div_rho_diff(l, a, t) ==
    CAdd(Mul3(CSub(CMul(a.T[t], a.rho_next_coef[t]), a.rho_prev_coef[t]),
              epsilon_0, l.divE),
         Mul4(a.T_rho[t], a.rho_next_coef[t], a.dt, l.divJ))

\* c2*T*S_w*x : the factor of the curl(B) and mu_0*J terms
CurlFactor(a, t, x) == Mul4(c2, a.T[t], a.S_w[t], x)

\* With particle feedback: push the E field
Fb_Ep(m, l, a, t) ==
    Sum4(Mul3(a.T[t], a.C[t], m.Ep[t]),
         Mul3(Half, a.kr[t], l.rho_diff),
         CMul(Mul4(a.j_coef[t], J1, a.kz[t], a.V), m.Jp[t]),
         CurlFactor(a, t,
             CSub(CAdd(CNeg(Mul4(J1, Half, a.kr[t], m.Bz[t])),
                       CMul(a.kz[t], m.Bp[t])),
                  CMul(mu_0, m.Jp[t]))))

Fb_Em(m, l, a, t) ==
    Sum4(Mul3(a.T[t], a.C[t], m.Em[t]),
         CNeg(Mul3(Half, a.kr[t], l.rho_diff)),
         CMul(Mul4(a.j_coef[t], J1, a.kz[t], a.V), m.Jm[t]),
         CurlFactor(a, t,
             CSub(CSub(CNeg(Mul4(J1, Half, a.kr[t], m.Bz[t])),
                       CMul(a.kz[t], m.Bm[t])),
                  CMul(mu_0, m.Jm[t]))))

Fb_Ez(m, l, a, t) ==
    Sum4(Mul3(a.T[t], a.C[t], m.Ez[t]),
         CNeg(Mul3(J1, a.kz[t], l.rho_diff)),
         CMul(Mul4(a.j_coef[t], J1, a.kz[t], a.V), m.Jz[t]),
         CurlFactor(a, t,
             CSub(CAdd(Mul3(J1, a.kr[t], m.Bp[t]), Mul3(J1, a.kr[t], m.Bm[t])),
                  CMul(mu_0, m.Jz[t]))))

\* T*S_w*x : the factor of the curl(E_old) terms
RotFactor(a, t, x) == Mul3(a.T[t], a.S_w[t], x)

\* the curl(E) terms of the B push, on the saved electric fields
CurlE_p_bad(m, l, a, t) ==
    CAdd(CNeg(Mul4(J1, Half, a.kr[t], m.Ez[t])), CMul(a.kz[t], m.Ep[t]))

CurlE_p(m, l, a, t) ==
    CAdd(CNeg(Mul4(J1, Half, a.kr[t], l.Ez_old)), CMul(a.kz[t], l.Ep_old))

CurlE_m(m, l, a, t) ==
    CSub(CNeg(Mul4(J1, Half, a.kr[t], l.Ez_old)), CMul(a.kz[t], l.Em_old))

CurlE_z(m, l, a, t) ==
    CAdd(Mul3(J1, a.kr[t], l.Ep_old), Mul3(J1, a.kr[t], l.Em_old))

\* With particle feedback: push the B field
Fb_Bp(m, l, a, t) ==
    Sum3(Mul3(a.T[t], a.C[t], m.Bp[t]),
         CNeg(RotFactor(a, t, CurlE_p(m, l, a, t))),
         CMul(a.j_coef[t],
              CAdd(CNeg(Mul4(J1, Half, a.kr[t], m.Jz[t])), CMul(a.kz[t], m.Jp[t]))))

Fb_Bm(m, l, a, t) ==
    Sum3(Mul3(a.T[t], a.C[t], m.Bm[t]),
         CNeg(RotFactor(a, t, CurlE_m(m, l, a, t))),
         CMul(a.j_coef[t],
              CSub(CNeg(Mul4(J1, Half, a.kr[t], m.Jz[t])), CMul(a.kz[t], m.Jm[t]))))

Fb_Bz(m, l, a, t) ==
    Sum3(Mul3(a.T[t], a.C[t], m.Bz[t]),
         CNeg(RotFactor(a, t, CurlE_z(m, l, a, t))),
         CMul(a.j_coef[t],
              CAdd(Mul3(J1, a.kr[t], m.Jp[t]), Mul3(J1, a.kr[t], m.Jm[t]))))

\* Without particle feedback: push the E field
NoFb_Ep_bad(m, l, a, t) ==
    CAdd(Mul3(a.T[t], a.C[t], m.Ep[t]),
         CurlFactor(a, t,
             CSub(CAdd(CNeg(Mul4(J1, Half, a.kr[t], m.Bz[t])),
                       CMul(a.kz[t], m.Bp[t])),
                  CMul(mu_0, m.Jp[t]))))

NoFb_Ep(m, l, a, t) ==
    CAdd(Mul3(a.T[t], a.C[t], m.Ep[t]),
         CurlFactor(a, t,
             CAdd(CNeg(Mul4(J1, Half, a.kr[t], m.Bz[t])), CMul(a.kz[t], m.Bp[t]))))

NoFb_Em(m, l, a, t) ==
    CAdd(Mul3(a.T[t], a.C[t], m.Em[t]),
         CurlFactor(a, t,
             CSub(CNeg(Mul4(J1, Half, a.kr[t], m.Bz[t])), CMul(a.kz[t], m.Bm[t]))))

NoFb_Ez(m, l, a, t) ==
    CAdd(Mul3(a.T[t], a.C[t], m.Ez[t]),
         CurlFactor(a, t,
             CAdd(Mul3(J1, a.kr[t], m.Bp[t]), Mul3(J1, a.kr[t], m.Bm[t]))))

\* Without particle feedback: push the B field
NoFb_Bp(m, l, a, t) ==
    CSub(Mul3(a.T[t], a.C[t], m.Bp[t]), RotFactor(a, t, CurlE_p(m, l, a, t)))

NoFb_Bm(m, l, a, t) ==
    CSub(Mul3(a.T[t], a.C[t], m.Bm[t]), RotFactor(a, t, CurlE_m(m, l, a, t)))

NoFb_Bz(m, l, a, t) ==
    CSub(Mul3(a.T[t], a.C[t], m.Bz[t]), RotFactor(a, t, CurlE_z(m, l, a, t)))

cuda_push_eb_with(m, l, a, t, lab) ==
    CASE lab = "Ep_old" -> Local("Ep_old", m.Ep[t])
      [] lab = "Em_old" -> Local("Em_old", m.Em[t])
      [] lab = "Ez_old" -> Local("Ez_old", m.Ez[t])
      [] lab = "divE" -> Local("divE", Div_E(m, a, t))
      [] lab = "divJ" -> Local("divJ", Div_J(m, a, t))
      [] lab = "rho_diff" ->
            Local("rho_diff", IF a.use_true_rho THEN TrueRho_rho_diff(m, a, t)
                                                ELSE Div_rho_diff(l, a, t))
      [] lab = "Ep" ->
            Store("Ep", t, IF a.ptcl_feedback THEN Fb_Ep(m, l, a, t) ELSE NoFb_Ep(m, l, a, t))
      [] lab = "Em" ->
            Store("Em", t, IF a.ptcl_feedback THEN Fb_Em(m, l, a, t) ELSE NoFb_Em(m, l, a, t))
      [] lab = "Ez" ->
            Store("Ez", t, IF a.ptcl_feedback THEN Fb_Ez(m, l, a, t) ELSE NoFb_Ez(m, l, a, t))
      [] lab = "Bp" ->
            Store("Bp", t, IF a.ptcl_feedback THEN Fb_Bp(m, l, a, t) ELSE NoFb_Bp(m, l, a, t))
      [] lab = "Bm" ->
            Store("Bm", t, IF a.ptcl_feedback THEN Fb_Bm(m, l, a, t) ELSE NoFb_Bm(m, l, a, t))
      [] lab = "Bz" ->
            Store("Bz", t, IF a.ptcl_feedback THEN Fb_Bz(m, l, a, t) ELSE NoFb_Bz(m, l, a, t))

(***************************************************************************)
(* cuda_push_rho                                                           *)
(***************************************************************************)
Guard_push_rho(m, a, t) == iz(t) < a.Nz /\ ir(t) < a.Nr

Prog_push_rho_bad == <<"rho_next", "rho_prev">>

Prog_push_rho == <<"rho_prev", "rho_next">>

cuda_push_rho_bad(m, l, a, t, lab) ==
    CASE lab = "rho_prev" -> Store("rho_prev", t, m.rho_next[t])
      [] lab = "rho_next" -> Store("rho_next", <<0, ir(t)>>, Zero)

cuda_push_rho(m, l, a, t, lab) ==
    CASE lab = "rho_prev" -> Store("rho_prev", t, m.rho_next[t])
      [] lab = "rho_next" -> Store("rho_next", t, Zero)

(***************************************************************************)
(* cuda_filter_scalar, cuda_filter_vector.  The call binds the parameter   *)
(* field (fieldr, fieldt, fieldz) to arrays of the spectral grid.          *)
(***************************************************************************)
Guard_filter_scalar(m, a, t) == iz(t) < a.Nz /\ ir(t) < a.Nr

Prog_filter_scalar == <<"field">>

\* filter_array[iz, ir]*field[iz, ir]
Filtered_bad(w, x) == CAdd(w, x)

Filtered(w, x) == CMul(w, x)

cuda_filter_scalar(m, l, a, t, lab) ==
    Store(a.field, t, Filtered(a.filter_array[t], m[a.field][t]))

Guard_filter_vector(m, a, t) == iz(t) < a.Nz /\ ir(t) < a.Nr

Prog_filter_vector == <<"fieldr", "fieldt", "fieldz">>

cuda_filter_vector(m, l, a, t, lab) ==
    Store(a[lab], t, Filtered(a.filter_array[t], m[a[lab]][t]))

(***************************************************************************)
(* Running a kernel.  a.op names the kernel of the call.                   *)
(***************************************************************************)
Ops ==
    {"erase_scalar", "erase_vector", "divide_scalar_by_volume",
     "divide_vector_by_volume", "correct_currents", "push_eb_with", "push_rho",
     "filter_scalar", "filter_vector"}

\* if (iz < Nz) and (ir < Nr)
Guard(m, a, t) ==
    CASE a.op = "erase_scalar" -> Guard_erase_scalar(m, a, t)
      [] a.op = "erase_vector" -> Guard_erase_vector(m, a, t)
      [] a.op = "divide_scalar_by_volume" -> Guard_divide_scalar_by_volume(m, a, t)
      [] a.op = "divide_vector_by_volume" -> Guard_divide_vector_by_volume(m, a, t)
      [] a.op = "correct_currents" -> Guard_correct_currents(m, a, t)
      [] a.op = "push_eb_with" -> Guard_push_eb_with(m, a, t)
      [] a.op = "push_rho" -> Guard_push_rho(m, a, t)
      [] a.op = "filter_scalar" -> Guard_filter_scalar(m, a, t)
      [] a.op = "filter_vector" -> Guard_filter_vector(m, a, t)

\* the statements under the guard, in program order
Prog(a) ==
    CASE a.op = "erase_scalar" -> Prog_erase_scalar
      [] a.op = "erase_vector" -> Prog_erase_vector
      [] a.op = "divide_scalar_by_volume" -> Prog_divide_scalar_by_volume
      [] a.op = "divide_vector_by_volume" -> Prog_divide_vector_by_volume
      [] a.op = "correct_currents" -> Prog_correct_currents
      [] a.op = "push_eb_with" -> Prog_push_eb_with(a)
      [] a.op = "push_rho" -> Prog_push_rho
      [] a.op = "filter_scalar" -> Prog_filter_scalar
      [] a.op = "filter_vector" -> Prog_filter_vector

Stmt(m, l, a, t, lab) ==
    CASE a.op = "erase_scalar" -> cuda_erase_scalar(m, l, a, t, lab)
      [] a.op = "erase_vector" -> cuda_erase_vector(m, l, a, t, lab)
      [] a.op = "divide_scalar_by_volume" -> cuda_divide_scalar_by_volume(m, l, a, t, lab)
      [] a.op = "divide_vector_by_volume" -> cuda_divide_vector_by_volume(m, l, a, t, lab)
      [] a.op = "correct_currents" -> cuda_correct_currents(m, l, a, t, lab)
      [] a.op = "push_eb_with" -> cuda_push_eb_with(m, l, a, t, lab)
      [] a.op = "push_rho" -> cuda_push_rho(m, l, a, t, lab)
      [] a.op = "filter_scalar" -> cuda_filter_scalar(m, l, a, t, lab)
      [] a.op = "filter_vector" -> cuda_filter_vector(m, l, a, t, lab)

\* the effect of a statement on the memory and on the thread's locals
WriteMem(m, st) ==
    IF st.kind = "array" THEN [m EXCEPT ![st.tgt][st.at] = st.val] ELSE m

WriteLocal(l, st) ==
    IF st.kind = "local" THEN [l EXCEPT ![st.tgt] = st.val] ELSE l

\* The value of a singleton set.  Binding a result as the element of a set
\* has it computed once, before the computation that uses it goes on.
The(S) == CHOOSE x \in S : TRUE

\* one thread, from its first statement to its last
RECURSIVE RunFrom(_, _, _, _, _)
RunFrom(m, l, a, t, k) ==
    IF k > Len(Prog(a)) THEN m
    ELSE The({RunFrom(WriteMem(m, st), WriteLocal(l, st), a, t, k + 1) :
                st \in {Stmt(m, l, a, t, Prog(a)[k])}})

RunThread(m, a, t) == IF Guard(m, a, t) THEN RunFrom(m, NoLocals, a, t, 1) ELSE m

\* the cells of an nz x nr grid in row-major order
CellSeq(nz, nr) == [k \in 1 .. nz * nr |-> <<(k - 1) \div nr, (k - 1) % nr>>]

RECURSIVE RunThreads(_, _, _, _)
RunThreads(m, a, ts, k) ==
    IF k > Len(ts) THEN m
    ELSE The({RunThreads(m1, a, ts, k + 1) : m1 \in {RunThread(m, a, ts[k])}})

\* The launched thread grid: whole blocks of ThreadsPerBlock x ThreadsPerBlock
\* threads that cover the Nz x Nr array.
ThreadsPerBlock == 2

GridDim(n) == ((n + ThreadsPerBlock - 1) \div ThreadsPerBlock) * ThreadsPerBlock

\* one call of the kernel: every thread of the launched grid runs
RunKernel(m, a) == RunThreads(m, a, CellSeq(GridDim(a.Nz), GridDim(a.Nr)), 1)

(***************************************************************************)
(* Inputs.  The contents of the arrays and of the coefficient arrays are   *)
(* drawn from a family of generic values indexed by a seed: small complex  *)
(* numbers with non-zero real and imaginary parts that differ from array   *)
(* to array and from cell to cell.                                         *)
(***************************************************************************)
NameSeq ==
    <<"Ep", "Em", "Ez", "Bp", "Bm", "Bz", "Jp", "Jm", "Jz", "rho_prev", "rho_next",
      "mode0", "mode1", "mode0r", "mode1r", "mode0t", "mode1t", "mode0z", "mode1z">>

NameIdx(n) == CHOOSE k \in 1 .. Len(NameSeq) : NameSeq[k] = n

FieldVal(k, t, s) ==
    Cx(((3 * k + 2 * iz(t) + ir(t) + s) % 5) - 2, ((k + iz(t) + 2 * ir(t) + 2 * s) % 3) - 1)

GenericMem(nz, nr, s) ==
    [n \in ArrayNames |-> [t \in Cells(nz, nr) |-> FieldVal(NameIdx(n), t, s)]]

\* the wavenumbers: kz depends on iz and kr on ir; with an odd seed the grid
\* has a zero-wavenumber cell, with an even seed it has none
KzVal(t, s) == Rat(IF s % 2 = 1 THEN iz(t) ELSE -iz(t), 1)

KrVal(t, s) == IF s % 2 = 1 THEN Rat(ir(t), 1) ELSE Rat(2 * ir(t) + 1, 2)

\* kz^2 + kr^2
K2(kzv, krv) == CAdd(CMul(kzv, kzv), CMul(krv, krv))

\* the regularized 1/(kz^2 + kr^2) of the coefficient cache
InvK2(kzv, krv) ==
    IF K2(kzv, krv) = Zero THEN Zero ELSE RInv(K2(kzv, krv))

GenericCfg(nz, nr, s) ==
    [Nz |-> nz, Nr |-> nr, scenario |-> FALSE, mode |-> s % 2,
     kz |-> [t \in Cells(nz, nr) |-> KzVal(t, s)],
     kr |-> [t \in Cells(nz, nr) |-> KrVal(t, s)],
     inv_k2 |-> [t \in Cells(nz, nr) |-> InvK2(KzVal(t, s), KrVal(t, s))],
     j_corr_coef |-> [t \in Cells(nz, nr) |-> Cx(1 + (s % 2), 1 + (ir(t) % 2))],
     T |-> [t \in Cells(nz, nr) |-> Cx((iz(t) + s) % 2, 1)],
     C |-> [t \in Cells(nz, nr) |-> Rat(1 + ((iz(t) + ir(t) + s) % 2), 1)],
     S_w |-> [t \in Cells(nz, nr) |-> Rat(1, 1 + ((ir(t) + s) % 2))],
     T_rho |-> [t \in Cells(nz, nr) |-> Cx(1, (iz(t) + s) % 2)],
     rho_prev_coef |-> [t \in Cells(nz, nr) |-> Cx(1 + ((ir(t) + s) % 2), 1)],
     rho_next_coef |-> [t \in Cells(nz, nr) |-> Cx(1, (iz(t) + ir(t) + s) % 2)],
     j_coef |-> [t \in Cells(nz, nr) |-> Cx((iz(t) + s) % 2, 1)],
     dt |-> Rat(1, s + 1),
     V |-> Rat(s, 1),
     invvol0 |-> [r \in 0 .. nr - 1 |-> Rat(1, 2 * r + s)],
     invvol1 |-> [r \in 0 .. nr - 1 |-> Rat(r + 2, s)],
     filter_array |-> [t \in Cells(nz, nr) |-> Rat(1, 1 + iz(t) + ir(t))]]

(***************************************************************************)
(* The concrete scenario: a 4 x 4 grid, kz = kr = 0 except at the cell     *)
(* (2, 1) where kz = 1 and kr = 1/2, Jz = 1 at that cell and every other   *)
(* field zero, T = C = 1, S_w = dt, T_rho = 1, j_coef = dt.  What the      *)
(* scenario leaves open (dt, V, rho_prev_coef, rho_next_coef) is generic.  *)
(***************************************************************************)
ScenarioShape == <<4, 4>>

ScenarioCell == <<2, 1>>

ScenarioCells == Cells(ScenarioShape[1], ScenarioShape[2])

ScenarioCfg(s) ==
    [GenericCfg(ScenarioShape[1], ScenarioShape[2], s) EXCEPT
        !.scenario = TRUE,
        !.kz = [t \in ScenarioCells |-> IF t = ScenarioCell THEN One ELSE Zero],
        !.kr = [t \in ScenarioCells |-> IF t = ScenarioCell THEN Half ELSE Zero],
        !.inv_k2 = [t \in ScenarioCells |->
                        IF t = ScenarioCell THEN InvK2(One, Half) ELSE Zero],
        !.T = [t \in ScenarioCells |-> One],
        !.C = [t \in ScenarioCells |-> One],
        !.S_w = [t \in ScenarioCells |-> Rat(1, s + 1)],
        !.T_rho = [t \in ScenarioCells |-> One],
        !.j_coef = [t \in ScenarioCells |-> Rat(1, s + 1)]]

ScenarioMem ==
    [n \in ArrayNames |->
        [t \in ScenarioCells |-> IF n = "Jz" /\ t = ScenarioCell THEN One ELSE Zero]]

(***************************************************************************)
(* The arguments of a call: the coefficient arrays and scalars of the      *)
(* configuration, the kernel, the two switches of cuda_push_eb_with and    *)
(* the arrays the filter kernels are applied to.                           *)
(***************************************************************************)
Args(cf, op, fb, tr, f, fv) ==
    [op |-> op, ptcl_feedback |-> fb, use_true_rho |-> tr, field |-> f,
     fieldr |-> fv[1], fieldt |-> fv[2], fieldz |-> fv[3]] @@ cf

ScalarFields == {"rho_prev", "rho_next"}

VectorFields == {<<"Ep", "Em", "Ez">>, <<"Bp", "Bm", "Bz">>, <<"Jp", "Jm", "Jz">>}

(***************************************************************************)
(* State.                                                                  *)
(*   mem     the arrays                                                    *)
(*   cfg     the configuration: grid shape, coefficient arrays, dt, V      *)
(*   hist    the last calls, most recent first: arguments and the memory   *)
(*           at entry                                                      *)
(*   ncalls  the number of kernel calls made                               *)
(*   thr     the threads of the kernel in flight (parallel execution)      *)
(*   loop    the position in the timestep loop and what its steps saw      *)
(***************************************************************************)
VARIABLES mem, cfg, hist, ncalls, thr, loop

vars == <<mem, cfg, hist, ncalls, thr, loop>>

NoLoop == [phase |-> "none"]

NoThreads == << >>

\* the input family of the nz x nr grid
SeedOf(nz, nr) == 1 + ((nz + nr) % MaxSeed)

InitData ==
    \/ \E nz \in 1 .. MaxNz, nr \in 1 .. MaxNr :
          /\ cfg = GenericCfg(nz, nr, SeedOf(nz, nr))
          /\ mem = GenericMem(nz, nr, SeedOf(nz, nr))
    \/ \E s \in 1 .. MaxSeed :
          /\ cfg = ScenarioCfg(s)
          /\ mem = ScenarioMem

Init ==
    /\ InitData
    /\ hist = << >>
    /\ ncalls = 0
    /\ thr = NoThreads
    /\ loop = NoLoop

\* the switches and bindings of a call
Plain(op) ==
    [op |-> op, ptcl_feedback |-> FALSE, use_true_rho |-> FALSE, field |-> "rho_next",
     fieldv |-> <<"Jp", "Jm", "Jz">>]

\* the arguments of the call k under the configuration cf
ArgsOf(cf, k) == Args(cf, k.op, k.ptcl_feedback, k.use_true_rho, k.field, k.fieldv)

\* the record of a call, put in front of the record of the call before it
Record(k, m) ==
    <<[call |-> k, entry |-> m]>> \o SubSeq(hist, 1, IF hist = << >> THEN 0 ELSE 1)

\* One call of a kernel, from launch to the completion of all its threads.
\* (the concrete scenario is one call)
Call(k) ==
    /\ ncalls < (IF cfg.scenario THEN 1 ELSE MaxCalls)
    /\ mem' = RunKernel(mem, ArgsOf(cfg, k))
    /\ hist' = Record(k, mem)
    /\ ncalls' = ncalls + 1
    /\ UNCHANGED <<cfg, thr, loop>>

EraseScalar == Call(Plain("erase_scalar"))

EraseVector == Call(Plain("erase_vector"))

DivideScalarByVolume == Call(Plain("divide_scalar_by_volume"))

DivideVectorByVolume == Call(Plain("divide_vector_by_volume"))

CorrectCurrents == Call(Plain("correct_currents"))

PushEbWith ==
    \E fb \in BOOLEAN, tr \in BOOLEAN :
        Call([Plain("push_eb_with") EXCEPT !.ptcl_feedback = fb, !.use_true_rho = tr])

PushRho == Call(Plain("push_rho"))

FilterScalar ==
    \E f \in ScalarFields : Call([Plain("filter_scalar") EXCEPT !.field = f])

FilterVector ==
    \E fv \in VectorFields : Call([Plain("filter_vector") EXCEPT !.fieldv = fv])

Next ==
    \/ EraseScalar
    \/ EraseVector
    \/ DivideScalarByVolume
    \/ DivideVectorByVolume
    \/ CorrectCurrents
    \/ PushEbWith
    \/ PushRho
    \/ FilterScalar
    \/ FilterVector

Spec == Init /\ [][Next]_vars

(***************************************************************************)
(* Properties of one call.                                                 *)
(***************************************************************************)
\* the last call was of the kernel op
LastIs(op) == hist # << >> /\ hist[1].call.op = op

\* the arguments of the last call and the memory at its entry
LastArgs == ArgsOf(cfg, hist[1].call)

Entry == hist[1].entry

GridCells == Cells(cfg.Nz, cfg.Nr)

(***************************************************************************)
(* The update of section 4.4, as a function of the fields e at entry.      *)
(***************************************************************************)
S44_rho_diff(e, a, t) ==
    IF a.use_true_rho
    THEN CSub(CMul(a.rho_next_coef[t], e.rho_next[t]),
              CMul(a.rho_prev_coef[t], e.rho_prev[t]))
    ELSE LET divE == CAdd(CMul(a.kr[t], CSub(e.Ep[t], e.Em[t])),
                          Mul3(J1, a.kz[t], e.Ez[t]))
             divJ == CAdd(CMul(a.kr[t], CSub(e.Jp[t], e.Jm[t])),
                          Mul3(J1, a.kz[t], e.Jz[t]))
         IN  CAdd(Mul3(CSub(CMul(a.T[t], a.rho_next_coef[t]), a.rho_prev_coef[t]),
                       epsilon_0, divE),
                  Mul4(a.T_rho[t], a.rho_next_coef[t], a.dt, divJ))

\* the sources: rho_diff and J with particle feedback, nothing without
S44_src(e, a, t) ==
    IF a.ptcl_feedback
    THEN [rho_diff |-> S44_rho_diff(e, a, t), Jp |-> e.Jp[t], Jm |-> e.Jm[t],
          Jz |-> e.Jz[t]]
    ELSE [rho_diff |-> Zero, Jp |-> Zero, Jm |-> Zero, Jz |-> Zero]

S44(e, a, t) ==
    LET TC == CMul(a.T[t], a.C[t])
        TS == CMul(a.T[t], a.S_w[t])
        kr == a.kr[t]
        kz == a.kz[t]
        jv == Mul4(a.j_coef[t], J1, kz, a.V)
        hik == Mul3(J1, Half, kr)
        ik == CMul(J1, kr)
        s == S44_src(e, a, t)
    IN  [Ep |-> Sum4(CMul(TC, e.Ep[t]), Mul3(Half, kr, s.rho_diff), CMul(jv, s.Jp),
                     Mul3(c2, TS, CSub(CSub(CMul(kz, e.Bp[t]), CMul(hik, e.Bz[t])),
                                       CMul(mu_0, s.Jp)))),
         Em |-> Sum4(CMul(TC, e.Em[t]), CNeg(Mul3(Half, kr, s.rho_diff)), CMul(jv, s.Jm),
                     Mul3(c2, TS, CSub(CNeg(CAdd(CMul(hik, e.Bz[t]), CMul(kz, e.Bm[t]))),
                                       CMul(mu_0, s.Jm)))),
         Ez |-> Sum4(CMul(TC, e.Ez[t]), CNeg(Mul3(J1, kz, s.rho_diff)), CMul(jv, s.Jz),
                     Mul3(c2, TS, CSub(CMul(ik, CAdd(e.Bp[t], e.Bm[t])),
                                       CMul(mu_0, s.Jz)))),
         Bp |-> Sum3(CMul(TC, e.Bp[t]),
                     CNeg(CMul(TS, CSub(CMul(kz, e.Ep[t]), CMul(hik, e.Ez[t])))),
                     CMul(a.j_coef[t], CSub(CMul(kz, s.Jp), CMul(hik, s.Jz)))),
         Bm |-> Sum3(CMul(TC, e.Bm[t]),
                     CMul(TS, CAdd(CMul(hik, e.Ez[t]), CMul(kz, e.Em[t]))),
                     CNeg(CMul(a.j_coef[t], CAdd(CMul(hik, s.Jz), CMul(kz, s.Jm))))),
         Bz |-> Sum3(CMul(TC, e.Bz[t]),
                     CNeg(CMul(TS, CMul(ik, CAdd(e.Ep[t], e.Em[t])))),
                     CMul(a.j_coef[t], CMul(ik, CAdd(s.Jp, s.Jm))))]

EBNames == {"Ep", "Em", "Ez", "Bp", "Bm", "Bz"}

\* C1: after one call of cuda_push_eb_with, with either setting of
\* ptcl_feedback and use_true_rho, Ep, Em, Ez, Bp, Bm, Bz hold at every cell
\* the section 4.4 formulas evaluated on the values the fields had at entry:
\* B is built from the E at entry, E from the B at entry.
C1_PushMatchesSection44 ==
    LastIs("push_eb_with") =>
        \A t \in GridCells : \A n \in EBNames : mem[n][t] = S44(Entry, LastArgs, t)[n]

\* a call with feedback and divergence-derived rho_diff that changed Ep and
\* whose Bp differs from the one built on the overwritten E
C1_Witness ==
    /\ LastIs("push_eb_with")
    /\ hist[1].call.ptcl_feedback /\ ~hist[1].call.use_true_rho
    /\ \E t \in GridCells :
          /\ mem.Ep[t] # Entry.Ep[t]
          /\ mem.Ez[t] # Entry.Ez[t]
          /\ mem.Bp[t] # S44([Entry EXCEPT !.Ep = mem.Ep, !.Ez = mem.Ez], LastArgs, t).Bp

(***************************************************************************)
(* cuda_correct_currents: the continuity residual.                         *)
(***************************************************************************)
\* j_corr_coef*(rho_next - rho_prev*T) + i*kz*Jz + kr*(Jp - Jm)
Residual(m, a, t) ==
    Sum3(CMul(a.j_corr_coef[t], CSub(m.rho_next[t], CMul(m.rho_prev[t], a.T[t]))),
         Mul3(J1, a.kz[t], m.Jz[t]),
         CMul(a.kr[t], CSub(m.Jp[t], m.Jm[t])))

ZeroWavenumber(a, t) == K2(a.kz[t], a.kr[t]) = Zero

\* inv_k2 is regularized: 1/(kz^2 + kr^2) where that is defined, 0 elsewhere
Regularized(a) ==
    \A t \in Cells(a.Nz, a.Nr) : a.inv_k2[t] = InvK2(a.kz[t], a.kr[t])

\* C2 as stated: after cuda_correct_currents with a regularized inv_k2 the
\* continuity residual of the corrected currents is zero at every cell of
\* the grid, whatever rho_prev, rho_next, Jp, Jm, Jz were.
C2_ResidualZeroEverywhere ==
    (LastIs("correct_currents") /\ Regularized(LastArgs)) =>
        \A t \in GridCells : Residual(mem, LastArgs, t) = Zero

\* C2 amended: after cuda_correct_currents with a regularized inv_k2 the
\* continuity residual of the corrected currents is zero at every cell with
\* kz^2 + kr^2 # 0; at a zero-wavenumber cell the currents are left as they
\* were and the residual keeps its value j_corr_coef*(rho_next - rho_prev*T).
C2_ResidualZeroOffZeroWavenumber ==
    (LastIs("correct_currents") /\ Regularized(LastArgs)) =>
        \A t \in GridCells :
            IF ZeroWavenumber(LastArgs, t)
            THEN /\ mem.Jp[t] = Entry.Jp[t]
                 /\ mem.Jm[t] = Entry.Jm[t]
                 /\ mem.Jz[t] = Entry.Jz[t]
                 /\ Residual(mem, LastArgs, t) =
                        CMul(LastArgs.j_corr_coef[t],
                             CSub(Entry.rho_next[t],
                                  CMul(Entry.rho_prev[t], LastArgs.T[t])))
            ELSE Residual(mem, LastArgs, t) = Zero

\* a correction that had a non-zero residual to remove at a cell with
\* kz # 0 and kr # 0, and changed all three currents there
C2_Witness ==
    /\ LastIs("correct_currents")
    /\ \E t \in GridCells :
          /\ LastArgs.kz[t] # Zero /\ LastArgs.kr[t] # Zero
          /\ Residual(Entry, LastArgs, t) # Zero
          /\ mem.Jp[t] # Entry.Jp[t]
          /\ mem.Jm[t] # Entry.Jm[t]
          /\ mem.Jz[t] # Entry.Jz[t]

(***************************************************************************)
(* cuda_push_rho                                                           *)
(***************************************************************************)
\* C4: after one call of cuda_push_rho, at every cell rho_prev holds the
\* value rho_next had immediately before the call and rho_next is 0; the
\* old rho_prev is gone.
C4_HistoryShift ==
    LastIs("push_rho") =>
        \A t \in GridCells :
            mem.rho_prev[t] = Entry.rho_next[t] /\ mem.rho_next[t] = Zero

\* a shift that had a non-zero rho_next to move and another rho_prev to discard
C4_Witness ==
    /\ LastIs("push_rho")
    /\ \E t \in GridCells :
          /\ Entry.rho_next[t] # Zero
          /\ Entry.rho_prev[t] # Entry.rho_next[t]
          /\ Entry.rho_prev[t] # Zero

(***************************************************************************)
(* cuda_erase_scalar, cuda_erase_vector                                    *)
(***************************************************************************)
AllZero(names) == \A n \in names : \A t \in GridCells : mem[n][t] = Zero

\* C6: after cuda_erase_scalar both mode arrays, and after cuda_erase_vector
\* all six arrays (r, t, z of mode 0 and mode 1), are 0 at every valid cell,
\* whatever they held before.
C6_Zeroing ==
    /\ LastIs("erase_scalar") => AllZero(InterpScalarNames)
    /\ LastIs("erase_vector") => AllZero(InterpVectorNames)

\* an erase of six arrays none of which was zero everywhere
C6_Witness ==
    /\ LastIs("erase_vector")
    /\ \A n \in InterpVectorNames : \E t \in GridCells : Entry[n][t] # Zero

(***************************************************************************)
(* cuda_divide_scalar_by_volume, cuda_divide_vector_by_volume              *)
(***************************************************************************)
Mode0Names == {"mode0", "mode0r", "mode0t", "mode0z"}

\* the arrays of the last divide-by-volume call
Divided ==
    IF hist[1].call.op = "divide_scalar_by_volume" THEN InterpScalarNames
    ELSE InterpVectorNames

\* C7: after a divide-by-volume call every cell (iz, ir) of a mode-0 array is
\* its previous value times invvol0[ir] and every cell of a mode-1 array its
\* previous value times invvol1[ir], the same for the r, t and z components;
\* the arrays the call was not given are untouched.
C7_VolumeScaling ==
    (LastIs("divide_scalar_by_volume") \/ LastIs("divide_vector_by_volume")) =>
        \A n \in ArrayNames : \A t \in GridCells :
            mem[n][t] =
                IF n \notin Divided THEN Entry[n][t]
                ELSE IF n \in Mode0Names
                     THEN CMul(Entry[n][t], LastArgs.invvol0[ir(t)])
                     ELSE CMul(Entry[n][t], LastArgs.invvol1[ir(t)])

\* a vector call at a cell where the two modes' factors differ, neither is 1
\* and the fields are not zero
C7_Witness ==
    /\ LastIs("divide_vector_by_volume")
    /\ \E t \in GridCells :
          /\ ir(t) > 0
          /\ LastArgs.invvol0[ir(t)] # LastArgs.invvol1[ir(t)]
          /\ LastArgs.invvol0[ir(t)] # One
          /\ LastArgs.invvol0[ir(t)] # LastArgs.invvol0[0]
          /\ \A n \in InterpVectorNames : Entry[n][t] # Zero

(***************************************************************************)
(* cuda_filter_scalar, cuda_filter_vector                                  *)
(***************************************************************************)
IsFilter(k) == k.op \in {"filter_scalar", "filter_vector"}

\* the last two calls were the same filter call
FilteredTwice == Len(hist) = 2 /\ IsFilter(hist[1].call) /\ hist[1].call = hist[2].call

\* the arguments a with the filter array squared pointwise
Squared(a) ==
    [a EXCEPT !.filter_array =
        [t \in DOMAIN a.filter_array |-> CMul(a.filter_array[t], a.filter_array[t])]]

\* C8: applying cuda_filter_scalar or cuda_filter_vector twice with the same
\* filter array w leaves, in every cell and every component, the field that
\* one application with the pointwise square w*w gives.
C8_FilterTwiceIsSquare ==
    FilteredTwice => mem = RunKernel(hist[2].entry, Squared(LastArgs))

\* two vector filter calls on a field whose three components are non-zero at
\* a cell where w is neither 0 nor 1
C8_Witness ==
    /\ FilteredTwice
    /\ hist[1].call.op = "filter_vector"
    /\ \E t \in GridCells :
          /\ LastArgs.filter_array[t] \notin {Zero, One}
          /\ \A i \in 1 .. 3 : hist[2].entry[hist[1].call.fieldv[i]][t] # Zero
          /\ \A i \in 1 .. 3 : mem[hist[1].call.fieldv[i]][t] # Entry[hist[1].call.fieldv[i]][t]

(***************************************************************************)
(* cuda_push_eb_with without particle feedback                             *)
(***************************************************************************)
SourceNames == {"Jp", "Jm", "Jz", "rho_prev", "rho_next"}

\* other sources: the currents and charge densities of another input family
OtherSources(e, s) ==
    [n \in ArrayNames |->
        IF n \in SourceNames
        THEN [t \in DOMAIN e[n] |-> FieldVal(NameIdx(n) + 1, t, s + 1)]
        ELSE e[n]]

\* other source coefficients, dt, V and use_true_rho
OtherCoefs(a, s) ==
    [a EXCEPT !.rho_prev_coef = [t \in DOMAIN a.kz |-> Cx(s, 2)],
              !.rho_next_coef = [t \in DOMAIN a.kz |-> Cx(3, s)],
              !.j_coef = [t \in DOMAIN a.kz |-> Cx(s + 1, iz(t))],
              !.T_rho = [t \in DOMAIN a.kz |-> Cx(2, ir(t) + s)],
              !.dt = Rat(s + 2, 3),
              !.V = Rat(s + 3, 1),
              !.use_true_rho = ~a.use_true_rho]

\* C9: with ptcl_feedback false the E and B that cuda_push_eb_with produces
\* depend only on the E and B at entry and on T, C, S_w, kr, kz: a call on
\* other Jp, Jm, Jz, rho_prev, rho_next, rho_prev_coef, rho_next_coef, j_coef,
\* T_rho, dt, V and use_true_rho leaves the same E and B at every cell.
C9_NoFeedbackIgnoresSources ==
    (LastIs("push_eb_with") /\ ~hist[1].call.ptcl_feedback) =>
        \A s \in 1 .. MaxSeed :
            \A r \in {RunKernel(OtherSources(Entry, s), OtherCoefs(LastArgs, s))} :
                \A n \in EBNames : r[n] = mem[n]

\* a call without feedback on non-zero currents, compared with calls whose
\* currents differ from them, and that changed the fields
C9_Witness ==
    /\ LastIs("push_eb_with") /\ ~hist[1].call.ptcl_feedback
    /\ \E t \in GridCells :
          /\ Entry.Jp[t] # Zero
          /\ OtherSources(Entry, 1).Jp[t] # Entry.Jp[t]
          /\ OtherSources(Entry, 1).rho_next[t] # Entry.rho_next[t]
          /\ mem.Ep[t] # Entry.Ep[t]
          /\ mem.Bp[t] # Entry.Bp[t]

(***************************************************************************)
(* The concrete scenario.                                                  *)
(***************************************************************************)
\* one call with ptcl_feedback = True, use_true_rho = False on the scenario
ScenarioPushed ==
    /\ cfg.scenario
    /\ ncalls = 1
    /\ LastIs("push_eb_with")
    /\ hist[1].call.ptcl_feedback /\ ~hist[1].call.use_true_rho

ENames == {"Ep", "Em", "Ez"}

EOnlyAtScenarioCell ==
    \A t \in GridCells : t # ScenarioCell => \A n \in ENames : mem[n][t] = Entry[n][t]

\* C10 as stated: in the scenario one call changes E only at the cell (2, 1),
\* where rho_diff comes from divE = divJ = 0, so that Ep' = 0.
C10_ScenarioEpZero ==
    ScenarioPushed =>
        /\ EOnlyAtScenarioCell
        /\ Div_E(Entry, LastArgs, ScenarioCell) = Zero
        /\ Div_J(Entry, LastArgs, ScenarioCell) = Zero
        /\ mem.Ep[ScenarioCell] = Zero

\* C10 amended: in the scenario one call changes E only at the cell (2, 1),
\* where divE = 0 but divJ = i*kz*Jz = i, so that rho_diff = i*rho_next_coef*dt
\* and Ep' = 0.5*kr*rho_diff = (i/4)*rho_next_coef*dt, Em' = -Ep' and
\* Ez' = rho_next_coef*dt + i*dt*V - c2*mu_0*dt.
C10_ScenarioClosedForm ==
    ScenarioPushed =>
        /\ EOnlyAtScenarioCell
        /\ Div_E(Entry, LastArgs, ScenarioCell) = Zero
        /\ Div_J(Entry, LastArgs, ScenarioCell) = J1
        /\ mem.Ep[ScenarioCell] =
              Mul4(J1, Rat(1, 4), cfg.rho_next_coef[ScenarioCell], cfg.dt)
        /\ mem.Em[ScenarioCell] = CNeg(mem.Ep[ScenarioCell])
        /\ mem.Ez[ScenarioCell] =
              Sum3(CMul(cfg.rho_next_coef[ScenarioCell], cfg.dt),
                   Mul3(J1, cfg.dt, cfg.V),
                   CNeg(Mul3(c2, mu_0, cfg.dt)))

\* the scenario after its call, with a non-zero Ep at the cell (2, 1)
C10_Witness ==
    /\ ScenarioPushed
    /\ Entry = ScenarioMem
    /\ cfg.Nz = 4 /\ cfg.Nr = 4
    /\ mem.Ep[ScenarioCell] # Zero
    /\ mem.Ez[ScenarioCell] # Zero

(***************************************************************************)
(* Parallel execution.  A launch starts one thread per index of the        *)
(* launched grid.  A thread first evaluates the guard and then runs its    *)
(* statements in program order.  A statement that assigns an array element *)
(* takes two steps, the evaluation of its right-hand side (the reads) and  *)
(* the store (the write); the steps of different threads interleave in any *)
(* order.                                                                  *)
(*   thr[t].pc = 0            the thread has not evaluated the guard       *)
(*   thr[t].pc = k            its next statement is the k-th, 1 <= k <= n  *)
(*   thr[t].pc = n + 1        the thread has returned                      *)
(*   thr[t].pend              the evaluated statement whose store is due   *)
(***************************************************************************)
\* the calls (use_true_rho is read only under ptcl_feedback)
Calls ==
    {Plain(op) : op \in Ops \ {"filter_scalar", "filter_vector"}}
    \cup {[Plain("push_eb_with") EXCEPT !.ptcl_feedback = TRUE, !.use_true_rho = tr] :
            tr \in BOOLEAN}
    \cup {[Plain("filter_scalar") EXCEPT !.field = f] : f \in ScalarFields}
    \cup {[Plain("filter_vector") EXCEPT !.fieldv = fv] : fv \in VectorFields}

ThreadGrid == Cells(GridDim(cfg.Nz), GridDim(cfg.Nr))

Returned(a) == Len(Prog(a)) + 1

NoStore == Local("none", Zero)

ParInit ==
    /\ \E nz \in 1 .. MaxNz, nr \in 1 .. MaxNr :
          /\ cfg = GenericCfg(nz, nr, SeedOf(nz, nr))
          /\ mem = GenericMem(nz, nr, SeedOf(nz, nr))
    /\ hist = << >>
    /\ ncalls = 0
    /\ thr = NoThreads
    /\ loop = NoLoop

\* the kernel launch
ParLaunch ==
    /\ ncalls = 0
    /\ \E k \in Calls :
          /\ hist' = <<[call |-> k, entry |-> mem]>>
          /\ thr' = [t \in ThreadGrid |-> [pc |-> 0, l |-> NoLocals, pend |-> NoStore]]
    /\ ncalls' = 1
    /\ UNCHANGED <<mem, cfg, loop>>

\* a thread finds its index inside the bounds
ParEnter ==
    /\ ncalls = 1
    /\ \E t \in DOMAIN thr :
          /\ thr[t].pc = 0
          /\ Guard(mem, LastArgs, t)
          /\ thr' = [thr EXCEPT ![t].pc = 1]
    /\ UNCHANGED <<mem, cfg, hist, ncalls, loop>>

\* a thread finds its index outside the bounds and returns
ParSkip ==
    /\ ncalls = 1
    /\ \E t \in DOMAIN thr :
          /\ thr[t].pc = 0
          /\ ~Guard(mem, LastArgs, t)
          /\ thr' = [thr EXCEPT ![t].pc = Returned(LastArgs)]
    /\ UNCHANGED <<mem, cfg, hist, ncalls, loop>>

\* the statement the thread t is to evaluate
NextStmt(t) == Stmt(mem, thr[t].l, LastArgs, t, Prog(LastArgs)[thr[t].pc])

Evaluating(t) == thr[t].pc \in 1 .. Len(Prog(LastArgs)) /\ thr[t].pend = NoStore

\* a thread evaluates the right-hand side of its next statement; a local is
\* assigned at once, the store of an array element is left pending
ParEval ==
    /\ ncalls = 1
    /\ \E t \in DOMAIN thr :
          /\ Evaluating(t)
          /\ \E st \in {NextStmt(t)} :
                thr' = [thr EXCEPT ![t] =
                          IF st.kind = "local"
                          THEN [pc |-> @.pc + 1, l |-> WriteLocal(@.l, st), pend |-> NoStore]
                          ELSE [@ EXCEPT !.pend = st]]
    /\ UNCHANGED <<mem, cfg, hist, ncalls, loop>>

\* a thread stores the value it evaluated
ParStore ==
    /\ ncalls = 1
    /\ \E t \in DOMAIN thr :
          /\ thr[t].pend # NoStore
          /\ mem' = WriteMem(mem, thr[t].pend)
          /\ thr' = [thr EXCEPT ![t].pc = @ + 1, ![t].pend = NoStore]
    /\ UNCHANGED <<cfg, hist, ncalls, loop>>

ParNext == ParLaunch \/ ParEnter \/ ParSkip \/ ParEval \/ ParStore

SpecPar == ParInit /\ [][ParNext]_vars

\* the sequential loop over exactly the Nz x Nr cells, without the guard
RECURSIVE SeqLoop(_, _, _, _)
SeqLoop(m, a, ts, k) ==
    IF k > Len(ts) THEN m
    ELSE The({SeqLoop(m1, a, ts, k + 1) : m1 \in {RunFrom(m, NoLocals, a, ts[k], 1)}})

Launched == ncalls = 1 /\ thr # NoThreads

AllReturned == Launched /\ \A t \in DOMAIN thr : thr[t].pc = Returned(LastArgs)

\* the memory with every entry of every array outside the cell t replaced
Scrambled(m, t) ==
    [n \in ArrayNames |-> [u \in DOMAIN m[n] |-> IF u = t THEN m[n][u] ELSE Cx(7, 5)]]

\* a cell whose thread has stored nothing yet
Untouched(t) == thr[t].pc = 0 \/ (thr[t].pc = 1 /\ thr[t].pend = NoStore)

\* C3: when the threads of a launch that covers, and may exceed, the Nz x Nr
\* grid run with their reads and writes interleaved in any order, (1) once
\* all have returned the arrays hold what the sequential loop over exactly
\* the Nz x Nr cells produces, (2) a thread evaluates the same value whatever
\* the cells of the other threads hold and stores only at its own cell, (3) a
\* cell whose thread has stored nothing holds what it held at the launch, and
\* (4) a thread with iz >= Nz or ir >= Nr runs no statement.
C3_ParallelEqualsSequential ==
    Launched =>
        /\ AllReturned =>
              mem = SeqLoop(Entry, LastArgs, CellSeq(cfg.Nz, cfg.Nr), 1)
        /\ \A t \in DOMAIN thr :
              /\ Evaluating(t) =>
                    Stmt(Scrambled(mem, t), thr[t].l, LastArgs, t,
                         Prog(LastArgs)[thr[t].pc]) = NextStmt(t)
              /\ thr[t].pend # NoStore => thr[t].pend.at = t
        /\ \A t \in GridCells :
              Untouched(t) => \A n \in ArrayNames : mem[n][t] = Entry[n][t]
        /\ \A t \in DOMAIN thr \ GridCells : thr[t].pc \in {0, Returned(LastArgs)}

\* a launch of cuda_push_eb_with with feedback, on a thread grid with at least
\* two threads inside the array and two outside, has returned and has changed
\* the fields of every cell
C3_Witness ==
    /\ AllReturned
    /\ hist[1].call.op = "push_eb_with" /\ hist[1].call.ptcl_feedback
    /\ Cardinality(GridCells) >= 2
    /\ Cardinality(DOMAIN thr \ GridCells) >= 2
    /\ \A t \in GridCells : mem.Ep[t] # Entry.Ep[t] /\ mem.Bz[t] # Entry.Bz[t]

(***************************************************************************)
(* The timestep.  The loop that calls the kernels, the deposition and the  *)
(* spectral transform are outside this file; they are modelled from their  *)
(* description: reset of the interpolation grid, deposition, normalization *)
(* by the cell volume, forward transform into Jp, Jm, Jz and rho_next,     *)
(* optional current correction, field push, optional filter of one scalar  *)
(* or vector field of the spectral grid, shift of the charge density.      *)
(* The spectral grid in memory is that of the azimuthal mode cfg.mode.     *)
(***************************************************************************)
ModeScalar(md) == IF md = 0 THEN "mode0" ELSE "mode1"

ModeVector(md) ==
    IF md = 0 THEN <<"mode0r", "mode0t", "mode0z">> ELSE <<"mode1r", "mode1t", "mode1z">>

\* what the particles of timestep n add to the element t of the array nm
Deposited(nm, t, n) == FieldVal(NameIdx(nm) + n, t, n)

\* deposition: the particles' contributions are added onto the grid
Deposit(m, n) ==
    [nm \in ArrayNames |->
        IF nm \in InterpScalarNames \cup InterpVectorNames
        THEN [t \in DOMAIN m[nm] |-> CAdd(m[nm][t], Deposited(nm, t, n))]
        ELSE m[nm]]

\* the forward transform: an invertible linear map of the interpolation grid
\* onto the spectral grid, (r, t, z) to (p, m, z), that overwrites its target
Mirror(t, nz) == <<nz - 1 - iz(t), ir(t)>>

Transformed(x) == CMul(J1, x)

Forward(m, cf) ==
    [m EXCEPT
        !.rho_next = [t \in DOMAIN m.rho_next |->
            Transformed(m[ModeScalar(cf.mode)][Mirror(t, cf.Nz)])],
        !.Jp = [t \in DOMAIN m.Jp |->
            CMul(Half, CSub(m[ModeVector(cf.mode)[1]][Mirror(t, cf.Nz)],
                            CMul(J1, m[ModeVector(cf.mode)[2]][Mirror(t, cf.Nz)])))],
        !.Jm = [t \in DOMAIN m.Jm |->
            CMul(Half, CAdd(m[ModeVector(cf.mode)[1]][Mirror(t, cf.Nz)],
                            CMul(J1, m[ModeVector(cf.mode)[2]][Mirror(t, cf.Nz)])))],
        !.Jz = [t \in DOMAIN m.Jz |-> m[ModeVector(cf.mode)[3]][Mirror(t, cf.Nz)]]]

\* the two time levels of the charge density, as an operation is given them
Rho(m) == [prev |-> m.rho_prev, next |-> m.rho_next]

NoRho == [prev |-> << >>, next |-> << >>]

\* the fields the optional filter can be applied to
FilterTargets == ScalarFields \cup VectorFields

FilterCall(f) ==
    IF f \in ScalarFields THEN [Plain("filter_scalar") EXCEPT !.field = f]
    ELSE [Plain("filter_vector") EXCEPT !.fieldv = f]

(***************************************************************************)
(*   loop.phase     the operation that comes next                          *)
(*   loop.n         the number of the timestep                             *)
(*   loop.tr        use_true_rho of the simulation                         *)
(*   loop.corr      the rho_prev, rho_next the current corrector was given *)
(*                  in this timestep (NoRho: it has not run)               *)
(*   loop.push      the same for the field pusher                          *)
(*   loop.before    loop.push of the timestep before                       *)
(*   loop.filtered  the field the filter of the timestep before was        *)
(*                  applied to ("none": it was not applied)                *)
(*   loop.filtering the same for the filter of this timestep               *)
(***************************************************************************)
StepInit ==
    /\ \E nz \in 1 .. MaxNz :
          /\ cfg = GenericCfg(nz, MaxNr, SeedOf(nz, MaxNr))
          /\ mem = GenericMem(nz, MaxNr, SeedOf(nz, MaxNr))
    /\ \E tr \in BOOLEAN :
          loop = [phase |-> "reset", n |-> 1, tr |-> tr, corr |-> NoRho, push |-> NoRho,
                  before |-> NoRho, filtered |-> "none", filtering |-> "none"]
    /\ hist = << >>
    /\ ncalls = 0
    /\ thr = NoThreads

Run(m, k) == RunKernel(m, ArgsOf(cfg, k))

StepReset ==
    /\ loop.phase = "reset"
    /\ loop.n <= MaxTimesteps
    /\ mem' = Run(Run(mem, Plain("erase_scalar")), Plain("erase_vector"))
    /\ loop' = [loop EXCEPT !.phase = "deposit"]
    /\ UNCHANGED <<cfg, hist, ncalls, thr>>

StepDeposit ==
    /\ loop.phase = "deposit"
    /\ mem' = Deposit(mem, loop.n)
    /\ loop' = [loop EXCEPT !.phase = "normalize"]
    /\ UNCHANGED <<cfg, hist, ncalls, thr>>

StepNormalize ==
    /\ loop.phase = "normalize"
    /\ mem' = Run(Run(mem, Plain("divide_scalar_by_volume")),
                  Plain("divide_vector_by_volume"))
    /\ loop' = [loop EXCEPT !.phase = "transform"]
    /\ UNCHANGED <<cfg, hist, ncalls, thr>>

StepTransform ==
    /\ loop.phase = "transform"
    /\ mem' = Forward(mem, cfg)
    /\ loop' = [loop EXCEPT !.phase = "correct"]
    /\ UNCHANGED <<cfg, hist, ncalls, thr>>

StepCorrect ==
    /\ loop.phase = "correct"
    /\ mem' = Run(mem, Plain("correct_currents"))
    /\ loop' = [loop EXCEPT !.phase = "push", !.corr = Rho(mem)]
    /\ UNCHANGED <<cfg, hist, ncalls, thr>>

StepNoCorrect ==
    /\ loop.phase = "correct"
    /\ loop' = [loop EXCEPT !.phase = "push"]
    /\ UNCHANGED <<mem, cfg, hist, ncalls, thr>>

StepPush ==
    /\ loop.phase = "push"
    /\ mem' = Run(mem, [Plain("push_eb_with") EXCEPT !.ptcl_feedback = TRUE,
                                                     !.use_true_rho = loop.tr])
    /\ loop' = [loop EXCEPT !.phase = "filter", !.push = Rho(mem)]
    /\ UNCHANGED <<cfg, hist, ncalls, thr>>

StepFilter ==
    /\ loop.phase = "filter"
    /\ \E f \in FilterTargets :
          /\ mem' = Run(mem, FilterCall(f))
          /\ loop' = [loop EXCEPT !.phase = "shift", !.filtering = f]
    /\ UNCHANGED <<cfg, hist, ncalls, thr>>

StepNoFilter ==
    /\ loop.phase = "filter"
    /\ loop' = [loop EXCEPT !.phase = "shift", !.filtering = "none"]
    /\ UNCHANGED <<mem, cfg, hist, ncalls, thr>>

StepShift ==
    /\ loop.phase = "shift"
    /\ mem' = Run(mem, Plain("push_rho"))
    /\ loop' = [loop EXCEPT !.phase = "reset", !.n = @ + 1, !.before = loop.push,
                            !.filtered = loop.filtering, !.filtering = "none",
                            !.corr = NoRho, !.push = NoRho]
    /\ UNCHANGED <<cfg, hist, ncalls, thr>>

StepNext ==
    \/ StepReset
    \/ StepDeposit
    \/ StepNormalize
    \/ StepTransform
    \/ StepCorrect
    \/ StepNoCorrect
    \/ StepPush
    \/ StepFilter
    \/ StepNoFilter
    \/ StepShift

SpecStep == StepInit /\ [][StepNext]_vars

(***************************************************************************)
(* The charge density across timesteps.                                    *)
(***************************************************************************)
\* the rho_prev, rho_next the corrector and the pusher were given in this
\* timestep, once they ran
Seen == {loop.corr, loop.push} \ {NoRho}

\* the transform of timestep n's normalized deposition alone
OnlyDeposition(n) ==
    [t \in Cells(cfg.Nz, cfg.Nr) |->
        Transformed(CMul(Deposited(ModeScalar(cfg.mode), Mirror(t, cfg.Nz), n),
                         (IF cfg.mode = 0 THEN cfg.invvol0 ELSE cfg.invvol1)[ir(t)]))]

\* the rho_next of the timestep before as the shift found it: as the corrector
\* and the pusher were given it, times the filter array if the optional filter
\* of that timestep was applied to rho_next
ShiftedIn ==
    IF loop.filtered = "rho_next"
    THEN [t \in Cells(cfg.Nz, cfg.Nr) |-> CMul(cfg.filter_array[t], loop.before.next[t])]
    ELSE loop.before.next

\* C5 as stated: in every timestep n >= 2 the rho_prev the corrector and the
\* pusher are given is exactly the rho_next they were given in timestep n-1,
\* and the rho_next they are given is the transform of timestep n's deposition
\* alone.
C5_PrevIsNextOfStepBefore ==
    loop.n >= 2 =>
        \A s \in Seen : s.prev = loop.before.next /\ s.next = OnlyDeposition(loop.n)

\* C5, amended: in every timestep n >= 2 the rho_prev the corrector and the
\* pusher are given is the rho_next held when the shift of timestep n-1 ran:
\* the rho_next they were given in timestep n-1, multiplied cell by cell by the
\* filter array if the optional filter of timestep n-1 was applied to rho_next;
\* the rho_next they are given is the transform of timestep n's deposition
\* alone.
C5_PrevIsShiftedNext ==
    loop.n >= 2 =>
        \A s \in Seen : s.prev = ShiftedIn /\ s.next = OnlyDeposition(loop.n)

\* a second timestep in which corrector and pusher both ran, after a timestep
\* whose filter changed rho_next, with a deposition that differs from the one
\* before
C5_Witness ==
    /\ loop.n = 2
    /\ loop.phase = "shift"
    /\ Seen = {loop.push}
    /\ loop.corr = loop.push
    /\ loop.filtered = "rho_next"
    /\ \E t \in Cells(cfg.Nz, cfg.Nr) :
          /\ loop.push.prev[t] # loop.before.next[t]
          /\ loop.push.next[t] \notin {Zero, loop.before.next[t]}

====
